---------------------------- MODULE Spec2Model ----------------------------
(***************************************************************************)
(* State-machine model of the manual multiscale registration framework of  *)
(* Python/66_Registration_Demons.ipynb: smooth_and_resample and            *)
(* multiscale_demons.  One behaviour is one call of multiscale_demons.     *)
(*                                                                         *)
(* Images are two-dimensional grids.  Real numbers (shrink factors,        *)
(* spacings) are exact rationals <<numerator, denominator>>.  Pixel data   *)
(* is symbolic: an image records which input it comes from and the         *)
(* (shrink_factor, smoothing_sigma) pair it was derived with; a            *)
(* displacement field records which library call produced it.              *)
(***************************************************************************)
EXTENDS Integers, Sequences, FiniteSets

VARIABLES
    pc,                          \* position inside multiscale_demons
    fixed_image,                 \* argument
    moving_image,                \* argument
    initial_transform,           \* argument: TRUE iff a transform was passed
    shrink_factors,              \* argument: None or a list
    smoothing_sigmas,            \* argument: None or a list
    fixed_images,                \* local list
    moving_images,               \* local list
    todo,                        \* descriptors the pyramid loop still has to visit
    initial_displacement_field,  \* local, rebound at every level
    remaining,                   \* (f_image, m_image) pairs the registration loop still has to visit
    calls,                       \* log of the registration_algorithm.Execute calls
    sr_calls,                    \* log of the smooth_and_resample calls
    trace,                       \* log of the library calls, in order
    error,                       \* exception leaving multiscale_demons, "none" if none
    result                       \* value returned by multiscale_demons

vars == <<pc, fixed_image, moving_image, initial_transform, shrink_factors,
          smoothing_sigmas, fixed_images, moving_images, todo,
          initial_displacement_field, remaining, calls, sr_calls, trace,
          error, result>>

-----------------------------------------------------------------------------
(* Bounds of the checked input space. *)

MaxSize == 4
MaxLevels == 2

Axes == {1, 2}
Sizes == 1..MaxSize
\* shrink factors 3/2, 2 and 4 (the notebook passes 4 and 2)
ShrinkFactors == {<<3, 2>>, <<2, 1>>, <<4, 1>>}
\* smoothing sigmas, physical units (the notebook passes 8 and 4)
Sigmas == {4, 8}
\* per-axis spacing of the fixed image, 3/2 and 5/2, and of the moving image
FixedSpacing == <<<<3, 2>>, <<5, 2>>>>
MovingSpacing == <<<<1, 1>>, <<2, 1>>>>

SeqsUpTo(S, n) == UNION {[1..k -> S] : k \in 0..n}

-----------------------------------------------------------------------------
(* Python values. *)

None == [given |-> FALSE, items |-> <<>>]
List(l) == [given |-> TRUE, items |-> l]

\* truth value of a None-or-list argument: None and [] are false
Truthy(arg) == arg.given /\ Len(arg.items) > 0

Reversed(s) == [k \in 1..Len(s) |-> s[Len(s) + 1 - k]]

Min(a, b) == IF a <= b THEN a ELSE b

\* variant: zip carried on to the longer list, the shorter one padded with
\* its last entry
Zip_PadLast(a, b) ==
    IF Len(a) = 0 \/ Len(b) = 0
    THEN <<>>
    ELSE [k \in 1..(IF Len(a) >= Len(b) THEN Len(a) ELSE Len(b)) |->
            <<a[Min(k, Len(a))], b[Min(k, Len(b))]>>]

\* list(zip(a, b)): pairs position by position, as long as the shorter list
Zip(a, b) == [k \in 1..Min(Len(a), Len(b)) |-> <<a[k], b[k]>>]

Last(s) == s[Len(s)]

-----------------------------------------------------------------------------
(* Images and displacement fields. *)

\* an input image; desc = <<>> marks an image nothing was applied to
InputImage(name, size, spacing) ==
    [input |-> name, desc |-> <<>>, size |-> size, spacing |-> spacing,
     origin |-> name, direction |-> name]

Grid(image) ==
    [size |-> image.size, origin |-> image.origin,
     spacing |-> image.spacing, direction |-> image.direction]

NoImage == InputImage("none", <<0, 0>>, <<<<0, 1>>, <<0, 1>>>>)
NoField == [src |-> "unset", n |-> 0, grid |-> Grid(NoImage)]

NoResult == [kind |-> "none", field |-> NoField]

-----------------------------------------------------------------------------
(* smooth_and_resample *)

\* variant: int(sz/float(shrink_factor)), the rounding term left out
new_size_Truncate(sz, sf) == (sz * sf[2]) \div sf[1]

\* variant: int(sz/float(shrink_factor) + 1), rounding up
new_size_Ceiling(sz, sf) == (sz * sf[2] + sf[1]) \div sf[1]

\* int(sz/float(shrink_factor) + 0.5), shrink_factor = sf[1]/sf[2]
new_size(sz, sf) == (2 * sz * sf[2] + sf[1]) \div (2 * sf[1])

\* variant: (original_sz*original_spc)/new_sz, the extent of the voxel corners
new_spacing_VoxelExtent(original_sz, original_spc, new_sz) ==
    <<original_sz * original_spc[1], new_sz * original_spc[2]>>

\* ((original_sz-1)*original_spc)/(new_sz-1), defined for new_sz # 1
new_spacing(original_sz, original_spc, new_sz) ==
    <<(original_sz - 1) * original_spc[1], (new_sz - 1) * original_spc[2]>>

\* variant: the division guarded, so that it never raises
DividesByZero_Guarded(image, sf) == FALSE

\* the division of line 234 raises ZeroDivisionError on an axis of new size 1
DividesByZero(image, sf) == \E a \in Axes : new_size(image.size[a], sf) = 1

\* a grid without pixels; what sitk.Resample does with it is the library's affair
EmptyGrid(image, sf) == \E a \in Axes : new_size(image.size[a], sf) = 0

\* the image sitk.Resample returns at lines 236-239
Resampled(image, sf, sigma) ==
    [input |-> image.input,
     desc |-> <<sf, sigma>>,
     size |-> [a \in Axes |-> new_size(image.size[a], sf)],
     spacing |-> [a \in Axes |->
                    new_spacing(image.size[a], image.spacing[a],
                                new_size(image.size[a], sf))],
     origin |-> image.origin,
     direction |-> image.direction]

\* the ways one call smooth_and_resample(image, sf, sigma) can end: the
\* exception raised ("none" if it returns), the image returned and the
\* library calls made
smooth_and_resample(image, sf, sigma) ==
    IF DividesByZero(image, sf)
    THEN {[error |-> "ZeroDivisionError", image |-> NoImage,
           ops |-> <<"SmoothingRecursiveGaussian">>]}
    ELSE {[error |-> "none", image |-> Resampled(image, sf, sigma),
           ops |-> <<"SmoothingRecursiveGaussian", "Resample">>]}
         \cup
         (IF EmptyGrid(image, sf)
          THEN {[error |-> "ResampleError", image |-> NoImage,
                 ops |-> <<"SmoothingRecursiveGaussian", "Resample">>]}
          ELSE {})

\* the arguments and the local new_size (line 233) of one call
SrCall(image, sf, sigma) ==
    [image |-> image, shrink_factor |-> sf, smoothing_sigma |-> sigma,
     new_size |-> [a \in Axes |-> new_size(image.size[a], sf)]]

-----------------------------------------------------------------------------
(* multiscale_demons *)

Init ==
    /\ pc = "idle"
    /\ fixed_image = NoImage
    /\ moving_image = NoImage
    /\ initial_transform = FALSE
    /\ shrink_factors = None
    /\ smoothing_sigmas = None
    /\ fixed_images = <<>>
    /\ moving_images = <<>>
    /\ todo = <<>>
    /\ initial_displacement_field = NoField
    /\ remaining = <<>>
    /\ calls = <<>>
    /\ sr_calls = <<>>
    /\ trace = <<>>
    /\ error = "none"
    /\ result = NoResult

\* variant: the descriptors visited in the caller's order
PyramidDescriptors_Unreversed(sfs, sigmas) == Zip(sfs, sigmas)

\* variant: the last shrink factor left out
PyramidDescriptors_DropLast(sfs, sigmas) ==
    Reversed(Zip(SubSeq(sfs, 1, Len(sfs) - 1), sigmas))

\* line 265: reversed(list(zip(shrink_factors, smoothing_sigmas)))
PyramidDescriptors(sfs, sigmas) == Reversed(Zip(sfs, sigmas))

\* the exception leaves multiscale_demons: nothing catches it
Raise(exc) ==
    /\ pc' = "raised"
    /\ error' = exc

\* entry, lines 262-265: the two lists start with the originals; the
\* descriptors to visit are reversed(list(zip(shrink_factors, smoothing_sigmas)))
Enter(f, m, tx, sfs, sigmas) ==
    /\ fixed_image' = f
    /\ moving_image' = m
    /\ initial_transform' = tx
    /\ shrink_factors' = sfs
    /\ smoothing_sigmas' = sigmas
    /\ fixed_images' = <<f>>
    /\ moving_images' = <<m>>
    /\ IF Truthy(sfs) /\ ~sigmas.given
       THEN /\ Raise("TypeError")          \* zip(shrink_factors, None)
            /\ todo' = <<>>
       ELSE /\ pc' = "pyramid"
            /\ error' = "none"
            /\ todo' = IF Truthy(sfs)
                       THEN PyramidDescriptors(sfs.items, sigmas.items)
                       ELSE <<>>
    /\ UNCHANGED <<initial_displacement_field, remaining, calls, sr_calls, trace,
                   result>>

Call ==
    /\ pc = "idle"
    /\ \E fsize \in Sizes \X Sizes, msize \in Sizes, tx \in BOOLEAN,
          sfs \in {None} \cup {List(l) : l \in SeqsUpTo(ShrinkFactors, MaxLevels)},
          sigmas \in {None} \cup {List(l) : l \in SeqsUpTo(Sigmas, MaxLevels)} :
            Enter(InputImage("fixed", fsize, FixedSpacing),
                  InputImage("moving", <<msize, msize>>, MovingSpacing),
                  tx, sfs, sigmas)

\* variant: each level derived from the level built before it
PyramidBase_Previous(images) == images[Len(images)]

\* lines 266-267: fixed_images[0], moving_images[0], the image every level is
\* derived from
PyramidBase(images) == images[1]

\* one iteration of the pyramid loop, lines 265-267
BuildLevel ==
    /\ pc = "pyramid"
    /\ todo # <<>>
    /\ LET shrink_factor == Head(todo)[1]
           smoothing_sigma == Head(todo)[2]
       IN \E rf \in smooth_and_resample(PyramidBase(fixed_images), shrink_factor, smoothing_sigma) :
            IF rf.error # "none"
            THEN /\ Raise(rf.error)
                 /\ trace' = trace \o rf.ops
                 /\ sr_calls' = Append(sr_calls, SrCall(PyramidBase(fixed_images), shrink_factor,
                                                        smoothing_sigma))
                 /\ UNCHANGED <<fixed_images, moving_images, todo>>
            ELSE \E rm \in smooth_and_resample(PyramidBase(moving_images), shrink_factor,
                                               smoothing_sigma) :
                   /\ fixed_images' = Append(fixed_images, rf.image)
                   /\ trace' = trace \o rf.ops \o rm.ops
                   /\ sr_calls' = sr_calls \o
                        <<SrCall(PyramidBase(fixed_images), shrink_factor, smoothing_sigma),
                          SrCall(PyramidBase(moving_images), shrink_factor, smoothing_sigma)>>
                   /\ IF rm.error # "none"
                      THEN /\ Raise(rm.error)
                           /\ UNCHANGED <<moving_images, todo>>
                      ELSE /\ moving_images' = Append(moving_images, rm.image)
                           /\ todo' = Tail(todo)
                           /\ UNCHANGED <<pc, error>>
    /\ UNCHANGED <<fixed_image, moving_image, initial_transform, shrink_factors,
                   smoothing_sigmas, initial_displacement_field, remaining, calls,
                   result>>

\* variant: CopyInformation left out, the field keeps the default origin,
\* spacing and direction of a new sitk.Image
InitialField_NoCopyInformation(tx, f) ==
    [src |-> IF tx THEN "transform" ELSE "zero", n |-> 0,
     grid |-> [size |-> f.size, origin |-> "default",
               spacing |-> <<<<1, 1>>, <<1, 1>>>>, direction |-> "default"]]

\* lines 271-283: sitk.TransformToDisplacementField on the size, origin,
\* spacing and direction of f, or a zero sitk.Image of the size of f with
\* CopyInformation(f)
InitialField(tx, f) ==
    [src |-> IF tx THEN "transform" ELSE "zero", n |-> 0, grid |-> Grid(f)]

\* lines 271-283: the first field, on the grid of fixed_images[-1]
CreateField ==
    /\ pc = "pyramid"
    /\ todo = <<>>
    /\ initial_displacement_field' = InitialField(initial_transform, Last(fixed_images))
    /\ trace' = Append(trace, IF initial_transform
                              THEN "TransformToDisplacementField"
                              ELSE "Image")
    /\ pc' = "execute"
    /\ UNCHANGED <<fixed_image, moving_image, initial_transform, shrink_factors,
                   smoothing_sigmas, fixed_images, moving_images, todo, remaining,
                   calls, sr_calls, error, result>>

\* variant: a failure of Execute caught and the loop carried on
Execute_Swallow(f, m, field, next) ==
    /\ trace' = Append(trace, "Execute")
    /\ \E ok \in BOOLEAN :
         /\ calls' = Append(calls, [fixed |-> f, moving |-> m, field |-> field,
                                    returned |-> ok])
         /\ initial_displacement_field' =
              IF ok THEN [src |-> "execute", n |-> Len(calls) + 1, grid |-> Grid(f)]
                    ELSE initial_displacement_field
    /\ pc' = next
    /\ UNCHANGED error

\* variant: a failed Execute called again
Execute_Retry(f, m, field, next) ==
    /\ trace' = Append(trace, "Execute")
    /\ \/ /\ calls' = Append(calls, [fixed |-> f, moving |-> m, field |-> field,
                                     returned |-> TRUE])
          /\ initial_displacement_field' =
               [src |-> "execute", n |-> Len(calls) + 1, grid |-> Grid(f)]
          /\ pc' = next
       \/ /\ calls' = Append(calls, [fixed |-> f, moving |-> m, field |-> field,
                                     returned |-> FALSE])
          /\ pc' = pc
          /\ UNCHANGED initial_displacement_field
    /\ UNCHANGED error

\* registration_algorithm.Execute(f, m, field): the collaborator either
\* returns a field on the grid of f or raises
Execute(f, m, field, next) ==
    /\ trace' = Append(trace, "Execute")
    /\ \/ /\ calls' = Append(calls, [fixed |-> f, moving |-> m, field |-> field,
                                     returned |-> TRUE])
          /\ initial_displacement_field' =
               [src |-> "execute", n |-> Len(calls) + 1, grid |-> Grid(f)]
          /\ pc' = next
          /\ UNCHANGED error
       \/ /\ calls' = Append(calls, [fixed |-> f, moving |-> m, field |-> field,
                                     returned |-> FALSE])
          /\ Raise("ExecuteError")
          /\ UNCHANGED initial_displacement_field

\* s[0:-1]
Front(s) == SubSeq(s, 1, Len(s) - 1)

\* variant: the loop list not reversed
LoopPairs_Unreversed(fs, ms) == Zip(Front(fs), Front(ms))

\* variant: the slices [1:] instead of [0:-1]
LoopPairs_Tail(fs, ms) == Reversed(Zip(Tail(fs), Tail(ms)))

\* variant: the moving images paired in the opposite order
LoopPairs_MovingUnreversed(fs, ms) == Reversed(Zip(Front(fs), Reversed(Front(ms))))

\* line 290: reversed(list(zip(fixed_images[0:-1], moving_images[0:-1])))
LoopPairs(fs, ms) == Reversed(Zip(Front(fs), Front(ms)))

\* variant: a new zero field made for the level instead of the resampled one
ResampledField_Fresh(field, f_image) ==
    [src |-> "zero", n |-> 0, grid |-> Grid(f_image)]

\* variant: the field passed on as it is, on the grid it had
ResampledField_KeepGrid(field, f_image) ==
    [src |-> "resample", n |-> field.n, grid |-> field.grid]

\* line 291: sitk.Resample(field, f_image), the field on the grid of f_image
ResampledField(field, f_image) ==
    [src |-> "resample", n |-> field.n, grid |-> Grid(f_image)]

\* lines 286-290: the first Execute, on fixed_images[-1] and moving_images[-1],
\* then the loop list is built
ExecuteFirst ==
    /\ pc = "execute"
    /\ LET rest == LoopPairs(fixed_images, moving_images)
       IN /\ Execute(Last(fixed_images), Last(moving_images),
                     initial_displacement_field,
                     IF rest = <<>> THEN "return" ELSE "resample")
          /\ remaining' = rest
    /\ UNCHANGED <<fixed_image, moving_image, initial_transform, shrink_factors,
                   smoothing_sigmas, fixed_images, moving_images, todo, sr_calls,
                   result>>

\* variant: the Resample of line 291 left out
ResampleField_Skipped ==
    /\ pc = "resample"
    /\ pc' = "loop"
    /\ UNCHANGED <<fixed_image, moving_image, initial_transform, shrink_factors,
                   smoothing_sigmas, fixed_images, moving_images, todo,
                   initial_displacement_field, remaining, calls, sr_calls, trace,
                   error, result>>

\* line 291: sitk.Resample(initial_displacement_field, f_image)
ResampleField ==
    /\ pc = "resample"
    /\ LET f_image == Head(remaining)[1]
       IN initial_displacement_field' =
            ResampledField(initial_displacement_field, f_image)
    /\ trace' = Append(trace, "Resample")
    /\ pc' = "loop"
    /\ UNCHANGED <<fixed_image, moving_image, initial_transform, shrink_factors,
                   smoothing_sigmas, fixed_images, moving_images, todo, remaining,
                   calls, sr_calls, error, result>>

\* line 292
ExecuteLevel ==
    /\ pc = "loop"
    /\ LET f_image == Head(remaining)[1]
           m_image == Head(remaining)[2]
       IN Execute(f_image, m_image, initial_displacement_field,
                  IF Tail(remaining) = <<>> THEN "return" ELSE "resample")
    /\ remaining' = Tail(remaining)
    /\ UNCHANGED <<fixed_image, moving_image, initial_transform, shrink_factors,
                   smoothing_sigmas, fixed_images, moving_images, todo, sr_calls,
                   result>>

\* line 293
Return ==
    /\ pc = "return"
    /\ result' = [kind |-> "DisplacementFieldTransform",
                  field |-> initial_displacement_field]
    /\ pc' = "done"
    /\ UNCHANGED <<fixed_image, moving_image, initial_transform, shrink_factors,
                   smoothing_sigmas, fixed_images, moving_images, todo,
                   initial_displacement_field, remaining, calls, sr_calls, trace,
                   error>>

Next ==
    \/ Call
    \/ BuildLevel
    \/ CreateField
    \/ ExecuteFirst
    \/ ResampleField
    \/ ExecuteLevel
    \/ Return

Spec == Init /\ [][Next]_vars

\* the statements of multiscale_demons, once it has been called
Run ==
    \/ BuildLevel
    \/ CreateField
    \/ ExecuteFirst
    \/ ResampleField
    \/ ExecuteLevel
    \/ Return

\* the state Enter(f, m, tx, sfs, sigmas) leaves
Entered(f, m, tx, sfs, sigmas) ==
    /\ fixed_image = f
    /\ moving_image = m
    /\ initial_transform = tx
    /\ shrink_factors = sfs
    /\ smoothing_sigmas = sigmas
    /\ fixed_images = <<f>>
    /\ moving_images = <<m>>
    /\ IF Truthy(sfs) /\ ~sigmas.given
       THEN /\ pc = "raised"
            /\ error = "TypeError"
            /\ todo = <<>>
       ELSE /\ pc = "pyramid"
            /\ error = "none"
            /\ todo = IF Truthy(sfs)
                      THEN PyramidDescriptors(sfs.items, sigmas.items)
                      ELSE <<>>
    /\ initial_displacement_field = NoField
    /\ remaining = <<>>
    /\ calls = <<>>
    /\ sr_calls = <<>>
    /\ trace = <<>>
    /\ result = NoResult

\* multiscale_demons has just been called, with the arguments Call draws
Called ==
    \E fsize \in Sizes \X Sizes, msize \in Sizes, tx \in BOOLEAN,
       sfs \in {None} \cup {List(l) : l \in SeqsUpTo(ShrinkFactors, MaxLevels)},
       sigmas \in {None} \cup {List(l) : l \in SeqsUpTo(Sigmas, MaxLevels)} :
         Entered(InputImage("fixed", fsize, FixedSpacing),
                 InputImage("moving", <<msize, msize>>, MovingSpacing),
                 tx, sfs, sigmas)

\* a call that was made is run on by the interpreter: a statement that can
\* execute does, and every library call returns or raises
FairSpec == Called /\ [][Run]_vars /\ WF_vars(Run)

-----------------------------------------------------------------------------
(* Vocabulary of the properties. *)

\* the descriptor list: the (shrink_factor, smoothing_sigma) pairs of the call
Descriptors ==
    IF Truthy(shrink_factors) /\ smoothing_sigmas.given
    THEN [k \in 1..Min(Len(shrink_factors.items), Len(smoothing_sigmas.items)) |->
            <<shrink_factors.items[k], smoothing_sigmas.items[k]>>]
    ELSE <<>>

RatLess(x, y) == x[1] * y[2] < y[1] * x[2]
RatEq(x, y) == x[1] * y[2] = y[1] * x[2]

\* shrink factor of a pyramid level, 1 for an original image
ShrinkOf(image) == IF image.desc = <<>> THEN <<1, 1>> ELSE image.desc[1]

\* every image of the sequence is strictly finer than the one before it
StrictlyCoarseToFine(images) ==
    \A k \in 1..(Len(images) - 1) :
        RatLess(ShrinkOf(images[k + 1]), ShrinkOf(images[k]))

\* the caller lists the shrink factors coarsest first
DescriptorsCoarseToFine ==
    \A k \in 1..(Len(Descriptors) - 1) :
        RatLess(Descriptors[k + 1][1], Descriptors[k][1])

\* the caller lists the shrink factors finest first
DescriptorsFineToCoarse ==
    \A k \in 1..(Len(Descriptors) - 1) :
        RatLess(Descriptors[k][1], Descriptors[k + 1][1])

\* the pyramid loop has run to its end
PyramidBuilt ==
    \/ pc = "pyramid" /\ todo = <<>>
    \/ pc \in {"execute", "resample", "loop", "return", "done"}
    \/ pc = "raised" /\ calls # <<>>

ExecutedFixed == [k \in 1..Len(calls) |-> calls[k].fixed]
ExecutedMoving == [k \in 1..Len(calls) |-> calls[k].moving]

-----------------------------------------------------------------------------
(* C1 *)

-----------------------------------------------------------------------------
(* C2 *)

\* C2 as stated: for descriptors given finest first, the built pyramid is
\* [coarsest, ..., second-finest, original].
C2_CoarsestFirstOriginalLast ==
    (DescriptorsFineToCoarse /\ PyramidBuilt) =>
        /\ Last(fixed_images) = fixed_image
        /\ Last(moving_images) = moving_image
        /\ StrictlyCoarseToFine(fixed_images)
        /\ StrictlyCoarseToFine(moving_images)

\* C2 amended: for descriptors given finest first, the descriptors are
\* traversed in reverse, the coarsest level is the first one computed, and
\* the pyramid is [original, coarsest, ..., finest derived level].
C2_OriginalFirstThenCoarsest ==
    (DescriptorsFineToCoarse /\ pc # "idle") =>
        /\ fixed_images[1] = fixed_image
        /\ moving_images[1] = moving_image
        /\ \A k \in 2..Len(fixed_images) :
               fixed_images[k].desc = Descriptors[Len(Descriptors) + 2 - k]
        /\ \A k \in 2..Len(moving_images) :
               moving_images[k].desc = Descriptors[Len(Descriptors) + 2 - k]
        /\ StrictlyCoarseToFine(Tail(fixed_images))
        /\ StrictlyCoarseToFine(Tail(moving_images))
        /\ PyramidBuilt => Len(fixed_images) = Len(Descriptors) + 1

C2_Witness ==
    /\ DescriptorsFineToCoarse
    /\ PyramidBuilt
    /\ Len(Descriptors) = 2
    /\ Len(fixed_images) = 3

-----------------------------------------------------------------------------
(* C3 *)

\* C3: once the pyramids are built from n descriptors, each holds n+1 images.
C3_PyramidLengths ==
    PyramidBuilt =>
        /\ Len(fixed_images) = Len(Descriptors) + 1
        /\ Len(moving_images) = Len(Descriptors) + 1

C3_Witness ==
    /\ PyramidBuilt
    /\ Len(Descriptors) = 2
    /\ Len(moving_images) = 3

-----------------------------------------------------------------------------
(* C4 *)

\* C4: the first entry of each pyramid stays the caller's image, untouched,
\* and the last Execute of a completed run is on these two images.
C4_FinestIsOriginal ==
    pc # "idle" =>
        /\ fixed_images[1] = fixed_image
        /\ moving_images[1] = moving_image
        /\ fixed_image.desc = <<>>
        /\ moving_image.desc = <<>>
        /\ \A k \in 2..Len(fixed_images) : fixed_images[k].desc # <<>>
        /\ \A k \in 2..Len(moving_images) : moving_images[k].desc # <<>>
        /\ pc = "done" =>
             /\ Last(calls).fixed = fixed_image
             /\ Last(calls).moving = moving_image

C4_Witness ==
    /\ pc = "done"
    /\ Len(fixed_images) = 3
    /\ Len(calls) = 3

-----------------------------------------------------------------------------
(* C5 *)

\* C5: without descriptors and without initial transform the run is one
\* Execute on the two originals and a zero field on the fixed image's grid,
\* with no smoothing and no resampling, and its output is what is returned.
C5_SingleScale ==
    (pc # "idle" /\ ~Truthy(shrink_factors) /\ ~initial_transform) =>
        /\ \A k \in 1..Len(trace) :
               trace[k] \notin {"SmoothingRecursiveGaussian", "Resample"}
        /\ Len(calls) <= 1
        /\ \A k \in 1..Len(calls) :
               /\ calls[k].fixed = fixed_image
               /\ calls[k].moving = moving_image
               /\ calls[k].field =
                    [src |-> "zero", n |-> 0, grid |-> Grid(fixed_image)]
        /\ pc = "done" =>
             /\ Len(calls) = 1
             /\ trace = <<"Image", "Execute">>
             /\ result.kind = "DisplacementFieldTransform"
             /\ result.field.src = "execute"
             /\ result.field.n = 1

C5_Witness ==
    /\ pc = "done"
    /\ shrink_factors = List(<<>>)
    /\ ~initial_transform
    /\ smoothing_sigmas # None

-----------------------------------------------------------------------------
(* C6 *)

\* C6: an Execute that fails is the last library call of the run, the run
\* ends with that error and returns nothing; a result is returned only when
\* every level's Execute has returned.
C6_ExecuteFailurePropagates ==
    /\ \A k \in 1..Len(calls) :
           ~calls[k].returned =>
               /\ k = Len(calls)
               /\ Last(trace) = "Execute"
               /\ pc = "raised"
               /\ error = "ExecuteError"
               /\ result = NoResult
    /\ pc = "raised" => result = NoResult
    /\ result # NoResult =>
           /\ pc = "done"
           /\ error = "none"
           /\ Len(calls) = Len(fixed_images)
           /\ \A k \in 1..Len(calls) : calls[k].returned

C6_Witness ==
    /\ pc = "raised"
    /\ error = "ExecuteError"
    /\ Len(calls) = 2
    /\ Len(fixed_images) = 3

-----------------------------------------------------------------------------
(* C7 *)

\* the new grid size computed for the image and the descriptor is 1 on an axis
SizeOneOnAnAxis(image, d) == \E a \in Axes : new_size(image.size[a], d[1]) = 1

\* C7: when some descriptor gives a new size of 1 on an axis of the fixed or
\* the moving image, the run never gets past pyramid construction: no level
\* is produced for that image and descriptor, no Execute is called, nothing
\* is returned, each descriptor is tried at most once per image, and the run
\* ends with an error.
C7_DegenerateSizeRejected ==
    (/\ pc # "idle"
     /\ \E k \in 1..Len(Descriptors) :
            \/ SizeOneOnAnAxis(fixed_image, Descriptors[k])
            \/ SizeOneOnAnAxis(moving_image, Descriptors[k])) =>
        /\ pc \in {"pyramid", "raised"}
        /\ pc = "pyramid" => todo # <<>>
        /\ pc = "raised" => error \in {"ZeroDivisionError", "ResampleError"}
        /\ calls = <<>>
        /\ result = NoResult
        /\ \A k \in 2..Len(fixed_images) :
               ~SizeOneOnAnAxis(fixed_image, fixed_images[k].desc)
        /\ \A k \in 2..Len(moving_images) :
               ~SizeOneOnAnAxis(moving_image, moving_images[k].desc)
        /\ \A j \in 1..Len(sr_calls) :
               LET d == Descriptors[Len(Descriptors) + 1 - ((j + 1) \div 2)]
               IN /\ sr_calls[j].image = IF j % 2 = 1 THEN fixed_image ELSE moving_image
                  /\ sr_calls[j].shrink_factor = d[1]
                  /\ sr_calls[j].smoothing_sigma = d[2]

C7_Witness ==
    /\ pc = "raised"
    /\ error = "ZeroDivisionError"
    /\ Len(fixed_images) = 2
    /\ Len(moving_images) = 2
    /\ SizeOneOnAnAxis(fixed_image, Descriptors[1])

-----------------------------------------------------------------------------
(* C8 *)

\* r is sz/sf rounded to the nearest integer, halves up
RoundedHalfUp(r, sz, sf) ==
    /\ 2 * sz * sf[2] - sf[1] < 2 * r * sf[1]
    /\ 2 * r * sf[1] <= 2 * sz * sf[2] + sf[1]

\* C8 as stated: every new size is original_size/shrink_factor rounded to
\* the nearest integer and is at least 1.
C8_RoundedAtLeastOne ==
    \A k \in 1..Len(sr_calls) : \A a \in Axes :
        /\ RoundedHalfUp(sr_calls[k].new_size[a], sr_calls[k].image.size[a],
                         sr_calls[k].shrink_factor)
        /\ sr_calls[k].new_size[a] >= 1

\* C8 amended: every new size is original_size/shrink_factor rounded to the
\* nearest integer (halves up); it is at least 1 exactly when
\* original_size/shrink_factor >= 1/2, and 0 otherwise.
C8_RoundedNoMinimum ==
    \A k \in 1..Len(sr_calls) : \A a \in Axes :
        LET sz == sr_calls[k].image.size[a]
            sf == sr_calls[k].shrink_factor
            r == sr_calls[k].new_size[a]
        IN /\ RoundedHalfUp(r, sz, sf)
           /\ r >= 0
           /\ r >= 1 <=> 2 * sz * sf[2] >= sf[1]

C8_Witness ==
    \E k \in 1..Len(sr_calls) :
        /\ sr_calls[k].shrink_factor = <<4, 1>>
        /\ sr_calls[k].image.size = <<1, 3>>
        /\ sr_calls[k].new_size = <<0, 1>>

-----------------------------------------------------------------------------
(* C9 *)

\* C9: a new size never exceeds the original size, and is smaller when the
\* shrink factor is at least 2 and the original size more than 1.
C9_SizeMonotone ==
    \A k \in 1..Len(sr_calls) : \A a \in Axes :
        LET sz == sr_calls[k].image.size[a]
            sf == sr_calls[k].shrink_factor
            r == sr_calls[k].new_size[a]
        IN /\ r <= sz
           /\ (sf[1] >= 2 * sf[2] /\ sz > 1) => r < sz

C9_Witness ==
    \E k \in 1..Len(sr_calls) :
        /\ sr_calls[k].shrink_factor = <<2, 1>>
        /\ sr_calls[k].image.size = <<2, 3>>
        /\ sr_calls[k].new_size = <<1, 2>>

-----------------------------------------------------------------------------
(* C10 *)

\* the level spans, on every axis of at least 2 samples, the extent of
\* sample locations of the image it derives from, with its origin and direction
SameExtent(lvl, base) ==
    /\ \A a \in Axes :
           lvl.size[a] >= 2 =>
               RatEq(<<(lvl.size[a] - 1) * lvl.spacing[a][1], lvl.spacing[a][2]>>,
                     <<(base.size[a] - 1) * base.spacing[a][1], base.spacing[a][2]>>)
    /\ lvl.origin = base.origin
    /\ lvl.direction = base.direction

\* C10: every derived level has (new_size-1)*new_spacing =
\* (original_size-1)*original_spacing on each axis of new size >= 2, and the
\* origin and direction of the original.
C10_ExtentPreserved ==
    /\ \A k \in 2..Len(fixed_images) : SameExtent(fixed_images[k], fixed_image)
    /\ \A k \in 2..Len(moving_images) : SameExtent(moving_images[k], moving_image)

C10_Witness ==
    /\ Len(fixed_images) = 3
    /\ fixed_image.size = <<4, 3>>
    /\ fixed_images[2].spacing = <<<<9, 4>>, <<10, 2>>>>
    /\ fixed_images[2].size = <<3, 2>>
    /\ fixed_images[3].size = <<2, 2>>
    /\ Len(moving_images) = 3

-----------------------------------------------------------------------------
(* C11 *)

Count(seq, x) == Cardinality({k \in 1..Len(seq) : seq[k] = x})

\* the displacement field as it is before the first Execute
HasFirstField == pc = "execute" \/ calls # <<>>
FirstField == IF calls # <<>> THEN calls[1].field ELSE initial_displacement_field

\* no level of the fixed pyramid has a larger shrink factor than level k
IsCoarsestFixed(k) ==
    \A j \in 1..Len(fixed_images) :
        ~RatLess(ShrinkOf(fixed_images[k]), ShrinkOf(fixed_images[j]))

\* the first field is zero without initial_transform and the converted
\* transform with it; the transform is converted once, before the first
\* Execute, and every later Execute gets a field resampled from an output
FirstFieldContent ==
    /\ FirstField.src = IF initial_transform THEN "transform" ELSE "zero"
    /\ Count(trace, "TransformToDisplacementField") = IF initial_transform THEN 1 ELSE 0
    /\ Count(trace, "Image") = IF initial_transform THEN 0 ELSE 1
    /\ \A k \in 1..Len(trace) :
           trace[k] \in {"TransformToDisplacementField", "Image"} =>
               \A j \in 1..(k - 1) : trace[j] # "Execute"
    /\ \A k \in 2..Len(calls) : calls[k].field.src = "resample"

-----------------------------------------------------------------------------
(* C12 *)

\* C12: every smooth_and_resample call is on one of the two input images,
\* and every derived level is what its own descriptor gives on the input
\* image, whatever the other descriptors and their order.
C12_LevelsFromOriginal ==
    /\ \A j \in 1..Len(sr_calls) :
           sr_calls[j].image = IF j % 2 = 1 THEN fixed_image ELSE moving_image
    /\ \A k \in 2..Len(fixed_images) :
           fixed_images[k] =
               Resampled(fixed_image, fixed_images[k].desc[1], fixed_images[k].desc[2])
    /\ \A k \in 2..Len(moving_images) :
           moving_images[k] =
               Resampled(moving_image, moving_images[k].desc[1], moving_images[k].desc[2])

C12_Witness ==
    /\ Len(fixed_images) = 3
    /\ Len(moving_images) = 3
    /\ fixed_image.size = <<4, 4>>
    /\ fixed_images[2].size = <<3, 3>>
    /\ fixed_images[3].size = <<3, 3>>

-----------------------------------------------------------------------------
(* C13 *)

\* C13: the field of every Execute after the first is the resample of the
\* output of the Execute just before it, so each output is used once; the
\* transform returned wraps the output of the last Execute, which is the one
\* on the original images.
C13_FieldThreaded ==
    /\ \A k \in 1..Len(calls) :
           IF k = 1
           THEN calls[k].field.src \in {"zero", "transform"} /\ calls[k].field.n = 0
           ELSE calls[k].field.src = "resample" /\ calls[k].field.n = k - 1
    /\ pc = "resample" =>
           /\ initial_displacement_field.src = "execute"
           /\ initial_displacement_field.n = Len(calls)
    /\ pc = "done" =>
           /\ result.kind = "DisplacementFieldTransform"
           /\ result.field.src = "execute"
           /\ result.field.n = Len(calls)
           /\ Len(calls) = Len(fixed_images)
           /\ Last(calls).fixed = fixed_image
           /\ Last(calls).moving = moving_image

C13_Witness ==
    /\ pc = "done"
    /\ Len(calls) = 3
    /\ result.field.n = 3
    /\ calls[3].field.n = 2

-----------------------------------------------------------------------------
(* C14 *)

\* C14: the field passed to an Execute is on the grid of the fixed image
\* passed with it, and the field returned is on the grid of the original
\* fixed image.
C14_FieldOnFixedGrid ==
    /\ \A k \in 1..Len(calls) : calls[k].field.grid = Grid(calls[k].fixed)
    /\ pc = "loop" =>
           initial_displacement_field.grid = Grid(Head(remaining)[1])
    /\ pc = "done" => result.field.grid = Grid(fixed_image)

C14_Witness ==
    /\ pc = "done"
    /\ Len(calls) = 3
    /\ calls[1].field.grid.size = <<2, 2>>
    /\ calls[2].field.grid.size = <<3, 3>>
    /\ calls[3].field.grid.size = <<4, 4>>
    /\ moving_image.size = <<3, 3>>

-----------------------------------------------------------------------------
(* C15 *)

\* library calls made up to and including the creation of the first field,
\* for a pyramid of the present length
BuildOps == 4 * (Len(fixed_images) - 1) + 1

\* C15: after the first field is made the library calls are Execute,
\* Resample, Execute, ..., starting with Execute; no Execute comes earlier;
\* each resampled field is on the grid of the level executed next; a
\* completed run over n+1 levels has n+1 Execute and n field Resample calls
\* and ends with an Execute.
C15_ExecuteResampleAlternate ==
    /\ calls = <<>> => Count(trace, "Execute") = 0
    /\ PyramidBuilt =>
           /\ \A i \in 1..Len(trace) :
                  i <= BuildOps => trace[i] # "Execute"
           /\ \A i \in (BuildOps + 1)..Len(trace) :
                  trace[i] = IF (i - BuildOps) % 2 = 1 THEN "Execute" ELSE "Resample"
           /\ Count(trace, "Execute") = Len(calls)
    /\ \A k \in 2..Len(calls) :
           /\ calls[k].field.src = "resample"
           /\ calls[k].field.grid = Grid(calls[k].fixed)
    /\ pc = "done" =>
           /\ Len(calls) = Len(fixed_images)
           /\ Len(trace) = BuildOps + 2 * Len(fixed_images) - 1
           /\ Last(trace) = "Execute"

C15_Witness ==
    /\ pc = "done"
    /\ Len(fixed_images) = 3
    /\ SubSeq(trace, 10, 14) = <<"Execute", "Resample", "Execute", "Resample", "Execute">>

-----------------------------------------------------------------------------
(* C16 *)

\* C16: the two images of an Execute call are the fixed and the moving
\* image of one level: both derived with the same descriptor, or both
\* originals.
C16_SameLevelPair ==
    \A k \in 1..Len(calls) :
        /\ calls[k].fixed.input = "fixed"
        /\ calls[k].moving.input = "moving"
        /\ calls[k].fixed.desc = calls[k].moving.desc
        /\ calls[k].fixed.desc = <<>> =>
               calls[k].fixed = fixed_image /\ calls[k].moving = moving_image

C16_Witness ==
    /\ pc = "done"
    /\ Len(calls) = 3
    /\ calls[1].fixed.desc = <<<<2, 1>>, 8>>
    /\ calls[2].moving.desc = <<<<3, 2>>, 4>>

-----------------------------------------------------------------------------
(* C17 *)

Terminated == pc \in {"done", "raised"}

\* an upper bound on the statements the call still has to run
StepsLeft ==
    CASE pc = "idle" -> 3 * MaxLevels + 5
      [] pc = "pyramid" -> 3 * Len(todo) + 2 * Len(fixed_images) + 2
      [] pc = "execute" -> 2 * Len(fixed_images) + 1
      [] pc = "resample" -> 2 * Len(remaining) + 1
      [] pc = "loop" -> 2 * Len(remaining)
      [] pc = "return" -> 1
      [] OTHER -> 0

\* C17: every call of multiscale_demons that was made ends, by a return or
\* an exception, and it does so in one pass: every step of the driver lowers
\* the number of steps left, and there are never more Execute calls than
\* pyramid levels.
C17_TerminatesInOnePass ==
    /\ <>Terminated
    /\ [][StepsLeft' < StepsLeft]_vars
    /\ [](Len(calls) <= Len(fixed_images))

C17_Witness ==
    /\ pc = "done"
    /\ Len(todo) = 0
    /\ Len(calls) = 3
    /\ Len(trace) = 14

-----------------------------------------------------------------------------
(* C18 *)

\* C18: the k-th Execute is on the level of the caller's k-th descriptor,
\* the one after the last descriptor is on the originals; a completed run
\* is coarse-to-fine exactly when the caller lists strictly decreasing
\* shrink factors.
C18_CallerOrderKept ==
    /\ \A k \in 1..Len(calls) :
           IF k <= Len(Descriptors)
           THEN /\ calls[k].fixed.desc = Descriptors[k]
                /\ calls[k].moving.desc = Descriptors[k]
           ELSE /\ k = Len(Descriptors) + 1
                /\ calls[k].fixed = fixed_image
                /\ calls[k].moving = moving_image
    /\ pc = "done" =>
           /\ Len(calls) = Len(Descriptors) + 1
           /\ StrictlyCoarseToFine(ExecutedFixed) <=> DescriptorsCoarseToFine

C18_Witness ==
    /\ pc = "done"
    /\ Len(calls) = 3
    /\ ~DescriptorsCoarseToFine
    /\ calls[1].fixed.desc[1] = <<3, 2>>
    /\ calls[2].fixed.desc[1] = <<2, 1>>

-----------------------------------------------------------------------------
(* C19 *)

DifferentLengths ==
    /\ shrink_factors.given
    /\ smoothing_sigmas.given
    /\ Len(shrink_factors.items) > 0
    /\ Len(smoothing_sigmas.items) > 0
    /\ Len(shrink_factors.items) # Len(smoothing_sigmas.items)

ShorterLength == Min(Len(shrink_factors.items), Len(smoothing_sigmas.items))

\* C19: with two non-empty lists of different lengths the call raises no
\* error about them: the levels are built from the pairs at the positions
\* both lists have, the entries beyond are never used, and the built
\* pyramids have one level more than the shorter list has entries.
C19_SurplusIgnored ==
    (pc # "idle" /\ DifferentLengths) =>
        /\ error \in {"none", "ZeroDivisionError", "ResampleError", "ExecuteError"}
        /\ pc = "raised" => sr_calls # <<>>
        /\ \A j \in 1..Len(sr_calls) :
               \E k \in 1..ShorterLength :
                   /\ sr_calls[j].shrink_factor = shrink_factors.items[k]
                   /\ sr_calls[j].smoothing_sigma = smoothing_sigmas.items[k]
                   /\ k = ShorterLength + 1 - ((j + 1) \div 2)
        /\ PyramidBuilt =>
               /\ Len(fixed_images) = ShorterLength + 1
               /\ Len(moving_images) = ShorterLength + 1

C19_Witness ==
    /\ pc = "done"
    /\ DifferentLengths
    /\ Len(shrink_factors.items) = 2
    /\ Len(smoothing_sigmas.items) = 1
    /\ Len(fixed_images) = 2
    /\ fixed_images[2].desc = <<shrink_factors.items[1], smoothing_sigmas.items[1]>>

=============================================================================
